---- MODULE Spec2Model ----
(***************************************************************************)
(* Model of tests/QservDataLoader.py (class QservDataLoader): the store    *)
(* (the target database and qservMeta), the file system (partition         *)
(* directories, the xrootd export directory, etc/emptyChunks.txt) and the  *)
(* position of loadPartitionedTable in its sequence of calls.              *)
(***************************************************************************)
EXTENDS Integers, Sequences, FiniteSets, TLC

\* ------------------------------------------------------------------ bounds
\* chunk ids the partitioner hands out are 1..MaxCell
MaxCell == 2
\* a configured chunk-domain size other than the one the code assumes
SmallDomain == 2
\* calls of loadPartitionedTable in one behaviour
MaxRuns == 2

\* ------------------------------------------------------- program constants
\* range(0,7201) in masterCreateEmptyChunksFile
HardCodedDomain == 7201
\* the chunk id of the table workerCreateTable1234567890 creates
PlaceholderChunkId == 1234567890

Tables == {"Object", "Source"}
Cells == 1..MaxCell
\* the primary keys of the rows of an input file
Keys == {1, 2}
\* exit codes of a subprocess: 0 is success
ExitCodes == {0, 1, 2}
\* the domain sizes a deployment may configure (derived from config stripes)
ConfiguredDomains == {SmallDomain, HardCodedDomain}

\* a file of integer lines is held as its runs of consecutive integers,
\* <<first, last>> each, in the order written (Compress and Lines below)
NoFile == [exists |-> FALSE, runs |-> <<>>]
NoDir == [exists |-> FALSE, names |-> {}]
Dir(names) == [exists |-> TRUE, names |-> names]
NoPartition == [exists |-> FALSE, chunks |-> [x \in {} |-> <<>>]]
NoError == [kind |-> "none", code |-> 0, step |-> "none"]

\* ----------------------------------------------------------------- helpers
EmptyFn == [x \in {} |-> <<>>]

Put(f, k, v) == [x \in DOMAIN f \cup {k} |-> IF x = k THEN v ELSE f[x]]

Drop(f, ks) == [x \in DOMAIN f \ ks |-> f[x]]

Range(s) == {s[i] : i \in DOMAIN s}

\* "%d" % n, as a sequence of decimal digits
RECURSIVE ToDigits(_)
ToDigits(n) == IF n < 10 THEN <<n>> ELSE Append(ToDigits(n \div 10), n % 10)

\* int(s) for a string of decimal digits
RECURSIVE FromDigits(_)
FromDigits(d) ==
  IF d = <<>> THEN 0 ELSE 10 * FromDigits(SubSeq(d, 1, Len(d) - 1)) + d[Len(d)]

\* a relation name: the base table's name and the digits after "_" (none
\* for the template table itself)
TableName(t, digits) == <<t, digits>>

ChunkTableName(t, k) == TableName(t, ToDigits(k))

TemplateName(t) == TableName(t, <<>>)

\* the order of character strings, on digit strings
RECURSIVE LexLess(_, _)
LexLess(a, b) ==
  IF a = <<>> THEN b # <<>>
  ELSE IF b = <<>> THEN FALSE
  ELSE IF Head(a) # Head(b) THEN Head(a) < Head(b)
  ELSE LexLess(Tail(a), Tail(b))

\* the elements of a set of digit strings, in the order of strings
RECURSIVE LexOrdered(_)
LexOrdered(S) ==
  IF S = {} THEN <<>>
  ELSE LET m == CHOOSE x \in S : \A y \in S \ {x} : LexLess(x, y)
       IN <<m>> \o LexOrdered(S \ {m})

\* sorted(l) on a list of integers
RECURSIVE Insert(_, _)
Insert(x, s) ==
  IF s = <<>> THEN <<x>>
  ELSE IF x <= Head(s) THEN <<x>> \o s
  ELSE <<Head(s)>> \o Insert(x, Tail(s))

RECURSIVE sorted(_)
sorted(l) == IF l = <<>> THEN <<>> ELSE Insert(Head(l), sorted(Tail(l)))

RECURSIVE Ascending(_)
Ascending(S) ==
  IF S = {} THEN <<>>
  ELSE LET m == CHOOSE x \in S : \A y \in S : x <= y
       IN <<m>> \o Ascending(S \ {m})

\* the runs of consecutive integers of a sequence, and back
Compress(s) ==
  LET starts == {i \in DOMAIN s : i = 1 \/ s[i] # s[i - 1] + 1}
      ord == Ascending(starts)
      last(j) == IF j = Len(ord) THEN Len(s) ELSE ord[j + 1] - 1
  IN [j \in DOMAIN ord |-> <<s[ord[j]], s[last(j)]>>]

RECURSIVE Expand(_)
Expand(r) ==
  IF r = <<>> THEN <<>>
  ELSE [k \in 1..(Head(r)[2] - Head(r)[1] + 1) |-> Head(r)[1] + k - 1]
       \o Expand(Tail(r))

File(lines) == [exists |-> TRUE, runs |-> Compress(lines)]
Lines(f) == Expand(f.runs)

\* ------------------------------------------------------------------- state
VARIABLES
  totalChunks,      \* the chunk-domain size the deployment configures
  dbExists,         \* database _dbName exists
  tables,           \* relations of _dbName: name -> sequence of rows
  metaDbExists,     \* database qservMeta exists
  metaTables,       \* relations of qservMeta: LSST__<table> -> sequence of rows
  xrdQueryDir,      \* xrootd-run/q/<_dbName>: NoDir or Dir(its file names)
  xrdResultDir,     \* xrootd-run/result: NoDir or Dir(its file names)
  emptyChunksFile,  \* etc/emptyChunks.txt: NoFile or File(its lines)
  provisionedFor,   \* the table of the run that last made xrd_query_dir
  pc,               \* position of loadPartitionedTable
  table,            \* its argument
  partitionOut,     \* contents of the directory partition_dirname names
  chunk_id_list,    \* its local chunk_id_list
  error,            \* the exception that ended the run, if any
  exit,             \* the last subprocess of the run and its exit code
  steps,            \* the calls the run has completed, in order
  runs,             \* calls of loadPartitionedTable so far
  freshStart,       \* the run was called on the store as initDatabases leaves it
  loadedSinceReset, \* per table: loader runs completed since initDatabases (0, 1, 2 = more)
  discoveredSinceReset  \* per table: a run of it has discovered since initDatabases

vars == <<totalChunks, dbExists, tables, metaDbExists, metaTables, xrdQueryDir,
          xrdResultDir, emptyChunksFile, provisionedFor, pc, table, partitionOut,
          chunk_id_list, error, exit, steps, runs, freshStart,
          loadedSinceReset, discoveredSinceReset>>

store == <<dbExists, tables, metaDbExists, metaTables>>
files == <<xrdQueryDir, xrdResultDir, emptyChunksFile, provisionedFor>>
locals == <<table, partitionOut, chunk_id_list, runs, freshStart>>

Terminal == {"idle", "done", "failed"}

NoExit == [cmd |-> "none", code |-> 0]

\* ----------------------------------------------------- QservDataLoader code
\* the calls of loadPartitionedTable, in the order of its body
CallOrder ==
  <<"getDataConfig", "executeFromFile", "partitionData", "loadPartitionedData",
    "workerCreateTable1234567890", "workerGetNonEmptyChunkIds",
    "masterCreateAndFeedMetaTable", "workerCreateXrootdExportDirs",
    "masterCreateEmptyChunksFile", "raw_input">>

\* After with discovery and loading in each other's place
After_swapped(call) ==
  LET order == [CallOrder EXCEPT ![4] = CallOrder[6], ![6] = CallOrder[4]]
      i == CHOOSE j \in DOMAIN order : order[j] = call
  IN IF i = Len(order) THEN "done" ELSE order[i + 1]

\* where loadPartitionedTable stands once a call has returned
After(call) ==
  LET i == CHOOSE j \in DOMAIN CallOrder : CallOrder[j] = call
  IN IF i = Len(CallOrder) THEN "done" ELSE CallOrder[i + 1]

\* getDataConfig: the columns handed to the partitioner for each table
getDataConfig ==
  [Object |-> [ra_column |-> "ra_PS", chunk_column_id |-> <<227>>],
   Source |-> [ra_column |-> "raObject", chunk_column_id |-> <<>>]]

\* SHOW TABLES IN _dbName LIKE "<prefix>\_%": the names, in name order
ShowTablesLike(tbls, prefix) ==
  LexOrdered({n[2] : n \in {m \in DOMAIN tbls : m[1] = prefix /\ m[2] # <<>>}})

\* workerGetNonEmptyChunkIds without its sorted()
workerGetNonEmptyChunkIds_unsorted(tbls) ==
  LET rows == ShowTablesLike(tbls, "Object")
  IN [i \in 1..Len(rows) |-> FromDigits(rows[i])]

\* workerGetNonEmptyChunkIds: the pattern is ^Object_([0-9]+)$ for every table
workerGetNonEmptyChunkIds(tbls) ==
  LET rows == ShowTablesLike(tbls, "Object")
      non_empty_chunk_list == [i \in 1..Len(rows) |-> FromDigits(rows[i])]
  IN sorted(non_empty_chunk_list)

\* masterCreateEmptyChunksFile without its "if i not in chunk_id_list"
masterCreateEmptyChunksFile_all(stripes, chunk_ids) ==
  [i \in 1..HardCodedDomain |-> i - 1]

\* masterCreateEmptyChunksFile: the lines written; stripes is not read
masterCreateEmptyChunksFile(stripes, chunk_ids) ==
  LET listed == Range(chunk_ids)
      keep(i) == i \notin listed
  IN SelectSeq([i \in 1..HardCodedDomain |-> i - 1], keep)

\* xrd_query_dir is xrootd-run/q/<_dbName>: the one directory, whatever the
\* table of the run
ExportDirOf(t) == xrdQueryDir

\* the marker files workerCreateXrootdExportDirs leaves in xrd_query_dir
ExportMarkers(non_empty_chunk_id_list) ==
  {ToDigits(non_empty_chunk_id_list[i]) : i \in DOMAIN non_empty_chunk_id_list}

\* --------------------------------------------------- external collaborators
\* the input files: each row has a primary key and, per coordinate column
\* pair, the chunk its coordinates fall in
ColumnsOf(t) == IF t = "Object" THEN {"ra_PS"} ELSE {"raObject", "ra"}

\* an input file holds no row, or one row per primary key; the Source row of
\* key k is a detection of the Object of key k: "raObject" is the coordinate
\* the row records for that Object, "ra" the row's own
InputFiles(t) ==
  UNION {[ks -> [ColumnsOf(t) -> Cells]] : ks \in {{}, Keys}}

\* partition.py --theta-column c: one output file per chunk that received
\* a row, holding the rows with chunkId and subChunkId added
Partitioner(file, cfg) ==
  LET chunkOf(k) == file[k][cfg.ra_column]
      used == {chunkOf(k) : k \in DOMAIN file}
  IN [c \in used |->
        {[id |-> k, chunkId |-> c, subChunkId |-> 0] :
           k \in {x \in DOMAIN file : chunkOf(x) = c}}]

\* the rows of a set, by primary key
RECURSIVE RowsById(_)
RowsById(R) ==
  IF R = {} THEN <<>>
  ELSE LET r == CHOOSE x \in R : \A y \in R : x.id <= y.id
       IN <<r>> \o RowsById(R \ {r})

\* loader.py: creates and fills <table>_<chunk> for the first n chunk files,
\* in ascending order of chunk id
RECURSIVE Loader(_, _, _, _)
Loader(tbls, t, out, todo) ==
  IF todo = <<>> THEN tbls
  ELSE Loader(Put(tbls, ChunkTableName(t, Head(todo)), RowsById(out[Head(todo)])),
              t, out, Tail(todo))

ChunkFiles(out) == Ascending(DOMAIN out)

\* the store's answer to the statements of masterCreateAndFeedMetaTable:
\* INSERT INTO LSST__<t> SELECT <t>Id, chunkId, subChunkId FROM <t>_<k>
\* for each k of todo, stopping at the first statement the store rejects
MetaRowOf(r) == <<r.id, r.chunkId, r.subChunkId>>

InsertFails(tbls, rows, t, k) ==
  \/ ChunkTableName(t, k) \notin DOMAIN tbls
  \/ LET new == tbls[ChunkTableName(t, k)]
     IN \/ \E i \in DOMAIN new : \E j \in DOMAIN rows : new[i].id = rows[j][1]
        \/ \E i, j \in DOMAIN new : i # j /\ new[i].id = new[j].id

RECURSIVE FeedMeta(_, _, _, _)
FeedMeta(tbls, rows, t, todo) ==
  IF todo = <<>> THEN [ok |-> TRUE, rows |-> rows]
  ELSE IF InsertFails(tbls, rows, t, Head(todo)) THEN [ok |-> FALSE, rows |-> rows]
  ELSE LET new == tbls[ChunkTableName(t, Head(todo))]
       IN FeedMeta(tbls, rows \o [i \in DOMAIN new |-> MetaRowOf(new[i])],
                   t, Tail(todo))

\* commons.run_command: raises on a nonzero exit code, carrying the code
run_command(code) ==
  IF code = 0 THEN NoError
  ELSE [kind |-> "SubprocessFailure", code |-> code, step |-> "run_command"]

\* ------------------------------------------------------------------ actions
\* a fresh server: initDatabases is what creates both databases
Init ==
  /\ totalChunks \in ConfiguredDomains
  /\ dbExists = FALSE
  /\ metaDbExists = FALSE
  /\ tables = EmptyFn
  /\ metaTables = EmptyFn
  /\ xrdQueryDir = NoDir
  /\ xrdResultDir = NoDir
  /\ emptyChunksFile = NoFile
  /\ provisionedFor = "none"
  /\ pc = "idle"
  /\ table = "none"
  /\ partitionOut = NoPartition
  /\ chunk_id_list = <<>>
  /\ error = NoError
  /\ exit = NoExit
  /\ steps = <<>>
  /\ runs = 0
  /\ freshStart = FALSE
  /\ loadedSinceReset = [t \in Tables |-> 0]
  /\ discoveredSinceReset = [t \in Tables |-> FALSE]

\* Raise with the exception caught and dropped: the run goes on
Raise_swallowed(kind, code, call) ==
  /\ pc' = After(call)
  /\ error' = error
  /\ steps' = Append(steps, call)

\* an exception leaves the call and, nothing catching it, loadPartitionedTable
Raise(kind, code, call) ==
  /\ pc' = "failed"
  /\ error' = [kind |-> kind, code |-> code, step |-> call]
  /\ steps' = steps

\* a call returns: the run moves on to the next call
Return(call) ==
  /\ pc' = After(call)
  /\ error' = error
  /\ steps' = Append(steps, call)

\* initDatabases without DROP DATABASE IF EXISTS qservMeta
initDatabases_keepMeta ==
  /\ pc \in Terminal
  /\ dbExists' = TRUE
  /\ tables' = EmptyFn
  /\ metaDbExists' = TRUE
  /\ metaTables' = metaTables
  /\ loadedSinceReset' = [t \in Tables |-> 0]
  /\ discoveredSinceReset' = [t \in Tables |-> FALSE]
  /\ pc' = "idle"
  /\ table' = "none"
  /\ partitionOut' = NoPartition
  /\ chunk_id_list' = <<>>
  /\ error' = NoError
  /\ exit' = NoExit
  /\ steps' = <<>>
  /\ freshStart' = FALSE
  /\ UNCHANGED <<totalChunks, files, runs>>

\* DROP DATABASE IF EXISTS and CREATE DATABASE, for _dbName and for qservMeta
initDatabases ==
  /\ pc \in Terminal
  /\ dbExists' = TRUE
  /\ tables' = EmptyFn
  /\ metaDbExists' = TRUE
  /\ metaTables' = EmptyFn
  /\ loadedSinceReset' = [t \in Tables |-> 0]
  /\ discoveredSinceReset' = [t \in Tables |-> FALSE]
  /\ pc' = "idle"
  /\ table' = "none"
  /\ partitionOut' = NoPartition
  /\ chunk_id_list' = <<>>
  /\ error' = NoError
  /\ exit' = NoExit
  /\ steps' = <<>>
  /\ freshStart' = FALSE
  /\ UNCHANGED <<totalChunks, files, runs>>

\* loadPartitionedTable is called; its first call, getDataConfig, returns
\* (the caller has set _schemaDict, which the class itself never assigns)
loadPartitionedTable(t) ==
  /\ pc \in Terminal
  /\ runs < MaxRuns
  /\ runs' = runs + 1
  /\ freshStart' = (dbExists /\ metaDbExists /\ tables = EmptyFn
                      /\ metaTables = EmptyFn)
  /\ table' = t
  /\ partitionOut' = NoPartition
  /\ chunk_id_list' = <<>>
  /\ pc' = After("getDataConfig")
  /\ error' = NoError
  /\ exit' = NoExit
  /\ steps' = <<"getDataConfig">>
  /\ UNCHANGED <<totalChunks, store, files, loadedSinceReset,
                 discoveredSinceReset>>

\* executeFromFile(schemaFile): the file creates the template table, plainly
\* or after dropping one that exists
executeFromFile ==
  /\ pc = "executeFromFile"
  /\ \E plain \in BOOLEAN :
       IF ~dbExists \/ (plain /\ TemplateName(table) \in DOMAIN tables)
       THEN /\ Raise("SQLError", 0, "executeFromFile")
            /\ UNCHANGED tables
       ELSE /\ tables' = Put(tables, TemplateName(table), <<>>)
            /\ Return("executeFromFile")
  /\ UNCHANGED <<totalChunks, dbExists, metaDbExists, metaTables, files, locals,
                 exit, loadedSinceReset,
                 discoveredSinceReset>>

partitionData ==
  /\ pc = "partitionData"
  /\ \E code \in ExitCodes :
       LET out == run_command(code)
       IN /\ exit' = [cmd |-> "partition.py", code |-> code]
          /\ IF out = NoError
             THEN /\ \E file \in InputFiles(table) :
                       partitionOut' =
                         [exists |-> TRUE,
                          chunks |-> Partitioner(file, getDataConfig[table])]
                  /\ Return("partitionData")
             ELSE /\ partitionOut' = [exists |-> TRUE, chunks |-> EmptyFn]
                  /\ Raise(out.kind, out.code, "partitionData")
  /\ UNCHANGED <<totalChunks, store, files, table, chunk_id_list, runs,
                 freshStart, loadedSinceReset,
                 discoveredSinceReset>>

\* the number of chunk files the loader can take before it meets a chunk
\* table that exists already
RECURSIVE FreshPrefix(_, _, _)
FreshPrefix(tbls, t, todo) ==
  IF todo = <<>> \/ ChunkTableName(t, Head(todo)) \in DOMAIN tbls THEN 0
  ELSE 1 + FreshPrefix(tbls, t, Tail(todo))

\* loadPartitionedData with a loader that adds to the chunk tables it finds
RECURSIVE Loader_appending(_, _, _, _)
Loader_appending(tbls, t, out, todo) ==
  IF todo = <<>> THEN tbls
  ELSE LET name == ChunkTableName(t, Head(todo))
           old == IF name \in DOMAIN tbls THEN tbls[name] ELSE <<>>
       IN Loader_appending(Put(tbls, name, old \o RowsById(out[Head(todo)])),
                           t, out, Tail(todo))

loadPartitionedData_appending ==
  /\ pc = "loadPartitionedData"
  /\ tables' = Loader_appending(tables, table, partitionOut.chunks,
                                ChunkFiles(partitionOut.chunks))
  /\ exit' = [cmd |-> "loader.py", code |-> 0]
  /\ loadedSinceReset' =
       [loadedSinceReset EXCEPT ![table] = IF @ = 0 THEN 1 ELSE 2]
  /\ Return("loadPartitionedData")
  /\ UNCHANGED <<totalChunks, dbExists, metaDbExists, metaTables, files, locals,
                 discoveredSinceReset>>

loadPartitionedData ==
  /\ pc = "loadPartitionedData"
  /\ LET todo == ChunkFiles(partitionOut.chunks)
         fresh == FreshPrefix(tables, table, todo)
     IN \E code \in ExitCodes, n \in 0..Len(todo) :
          /\ n <= fresh
          /\ (code = 0) <=> (n = Len(todo))
          /\ tables' = Loader(tables, table, partitionOut.chunks, SubSeq(todo, 1, n))
          /\ exit' = [cmd |-> "loader.py", code |-> code]
          /\ LET out == run_command(code)
             IN IF out = NoError
                THEN /\ loadedSinceReset' =
                          [loadedSinceReset EXCEPT ![table] = IF @ = 0 THEN 1 ELSE 2]
                     /\ Return("loadPartitionedData")
                ELSE /\ UNCHANGED loadedSinceReset
                     /\ IF n = fresh /\ fresh < Len(todo)
                        THEN Raise("StateInconsistency", out.code, "loadPartitionedData")
                        ELSE Raise(out.kind, out.code, "loadPartitionedData")
  /\ UNCHANGED <<totalChunks, dbExists, metaDbExists, metaTables, files, locals,
                 discoveredSinceReset>>

workerCreateTable1234567890 ==
  /\ pc = "workerCreateTable1234567890"
  /\ IF \/ TemplateName(table) \notin DOMAIN tables
        \/ ChunkTableName(table, PlaceholderChunkId) \in DOMAIN tables
     THEN /\ Raise("SQLError", 0, "workerCreateTable1234567890")
          /\ UNCHANGED tables
     ELSE /\ tables' = Put(tables, ChunkTableName(table, PlaceholderChunkId), <<>>)
          /\ Return("workerCreateTable1234567890")
  /\ UNCHANGED <<totalChunks, dbExists, metaDbExists, metaTables, files, locals,
                 exit, loadedSinceReset,
                 discoveredSinceReset>>

Discover ==
  /\ pc = "workerGetNonEmptyChunkIds"
  /\ chunk_id_list' = workerGetNonEmptyChunkIds(tables)
  /\ discoveredSinceReset' = [discoveredSinceReset EXCEPT ![table] = TRUE]
  /\ Return("workerGetNonEmptyChunkIds")
  /\ UNCHANGED <<totalChunks, store, files, table, partitionOut, runs, exit,
                 freshStart, loadedSinceReset>>

\* masterCreateAndFeedMetaTable undoing the run's load when an INSERT fails
masterCreateAndFeedMetaTable_cleanup ==
  /\ pc = "masterCreateAndFeedMetaTable"
  /\ IF ~metaDbExists \/ table \in DOMAIN metaTables
     THEN /\ Raise("SQLError", 0, "masterCreateAndFeedMetaTable")
          /\ UNCHANGED <<metaTables, tables>>
     ELSE LET fed == FeedMeta(tables, <<>>, table, chunk_id_list)
          IN IF fed.ok
             THEN /\ metaTables' = Put(metaTables, table, fed.rows)
                  /\ UNCHANGED tables
                  /\ Return("masterCreateAndFeedMetaTable")
             ELSE /\ UNCHANGED metaTables
                  /\ tables' = Drop(tables, {n \in DOMAIN tables :
                                               n[1] = table /\ n[2] # <<>>})
                  /\ Raise("SQLError", 0, "masterCreateAndFeedMetaTable")
  /\ UNCHANGED <<totalChunks, dbExists, metaDbExists, files, locals,
                 exit, loadedSinceReset,
                 discoveredSinceReset>>

\* USE qservMeta; CREATE TABLE LSST__<table> (...); then one INSERT per chunk id.
\* Every statement is taken against the database it names; the rows inserted
\* before a rejected statement stay
masterCreateAndFeedMetaTable ==
  /\ pc = "masterCreateAndFeedMetaTable"
  /\ IF ~metaDbExists \/ table \in DOMAIN metaTables
     THEN /\ Raise("SQLError", 0, "masterCreateAndFeedMetaTable")
          /\ UNCHANGED metaTables
     ELSE LET fed == FeedMeta(tables, <<>>, table, chunk_id_list)
          IN /\ metaTables' = Put(metaTables, table, fed.rows)
             /\ IF fed.ok
                THEN Return("masterCreateAndFeedMetaTable")
                ELSE Raise("SQLError", 0, "masterCreateAndFeedMetaTable")
  /\ UNCHANGED <<totalChunks, dbExists, tables, metaDbExists, files, locals,
                 exit, loadedSinceReset,
                 discoveredSinceReset>>

\* rmtree and makedirs may raise; then nothing of the directory is modelled
\* as changed
workerCreateXrootdExportDirs ==
  /\ pc = "workerCreateXrootdExportDirs"
  /\ \/ /\ xrdQueryDir' = Dir(ExportMarkers(chunk_id_list))
        /\ xrdResultDir' = Dir({})
        /\ provisionedFor' = table
        /\ Return("workerCreateXrootdExportDirs")
     \/ /\ Raise("OSError", 0, "workerCreateXrootdExportDirs")
        /\ UNCHANGED <<xrdQueryDir, xrdResultDir, provisionedFor>>
  /\ UNCHANGED <<totalChunks, store, emptyChunksFile, locals, exit,
                 loadedSinceReset,
                 discoveredSinceReset>>

\* WriteManifest opening the file with "a": the lines are added to what is there
WriteManifest_append ==
  /\ pc = "masterCreateEmptyChunksFile"
  /\ \/ /\ emptyChunksFile' =
             File(Lines(emptyChunksFile)
                    \o masterCreateEmptyChunksFile(totalChunks, chunk_id_list))
        /\ Return("masterCreateEmptyChunksFile")
     \/ /\ Raise("IOError", 0, "masterCreateEmptyChunksFile")
        /\ UNCHANGED emptyChunksFile
  /\ UNCHANGED <<totalChunks, store, xrdQueryDir, xrdResultDir, provisionedFor,
                 locals, exit,
                 loadedSinceReset,
                 discoveredSinceReset>>

\* WriteManifest with a failed open() passed over in silence
WriteManifest_swallow ==
  /\ pc = "masterCreateEmptyChunksFile"
  /\ \/ emptyChunksFile' =
          File(masterCreateEmptyChunksFile(totalChunks, chunk_id_list))
     \/ UNCHANGED emptyChunksFile
  /\ Return("masterCreateEmptyChunksFile")
  /\ UNCHANGED <<totalChunks, store, xrdQueryDir, xrdResultDir, provisionedFor,
                 locals, exit,
                 loadedSinceReset,
                 discoveredSinceReset>>

\* open(empty_chunks_filename, "w") may raise; otherwise the lines are written
WriteManifest ==
  /\ pc = "masterCreateEmptyChunksFile"
  /\ \/ /\ emptyChunksFile' =
             File(masterCreateEmptyChunksFile(totalChunks, chunk_id_list))
        /\ Return("masterCreateEmptyChunksFile")
     \/ /\ Raise("IOError", 0, "masterCreateEmptyChunksFile")
        /\ UNCHANGED emptyChunksFile
  /\ UNCHANGED <<totalChunks, store, xrdQueryDir, xrdResultDir, provisionedFor,
                 locals, exit,
                 loadedSinceReset,
                 discoveredSinceReset>>

\* raw_input(...): returns when the operator presses Enter, raises at end of input
raw_input ==
  /\ pc = "raw_input"
  /\ \/ Return("raw_input")
     \/ Raise("EOFError", 0, "raw_input")
  /\ UNCHANGED <<totalChunks, store, files, locals, exit, loadedSinceReset,
                 discoveredSinceReset>>

Next ==
  \/ initDatabases
  \/ \E t \in Tables : loadPartitionedTable(t)
  \/ executeFromFile
  \/ partitionData
  \/ loadPartitionedData
  \/ workerCreateTable1234567890
  \/ Discover
  \/ masterCreateAndFeedMetaTable
  \/ workerCreateXrootdExportDirs
  \/ WriteManifest
  \/ raw_input

Spec == Init /\ [][Next]_vars

\* every call of a run other than raw_input comes back, returning or raising:
\* the run moves on to the next call or fails
CallReturns ==
  /\ pc \notin Terminal \cup {"raw_input"}
  /\ pc' \in {After(pc), "failed"}

\* the interpreter runs the body of loadPartitionedTable on and every
\* subprocess and store call comes back; nothing makes the operator press Enter
SpecLive == Init /\ [][Next]_vars /\ WF_pc(CallReturns)

\* masterCreateEmptyChunksFile called on its own: the arguments are drawn
IdPool == {0, 1, SmallDomain, HardCodedDomain - 1, PlaceholderChunkId}

InitManifest ==
  /\ totalChunks \in ConfiguredDomains
  /\ chunk_id_list \in {Ascending(S) : S \in SUBSET IdPool}
  /\ pc = "masterCreateEmptyChunksFile"
  /\ steps = SubSeq(CallOrder, 1, 8)
  /\ table = "Object"
  /\ runs = 1
  /\ freshStart = TRUE
  /\ dbExists = TRUE
  /\ metaDbExists = TRUE
  /\ tables = EmptyFn
  /\ metaTables = EmptyFn
  /\ xrdQueryDir = NoDir
  /\ xrdResultDir = NoDir
  /\ emptyChunksFile = NoFile
  /\ provisionedFor = "none"
  /\ partitionOut = NoPartition
  /\ error = NoError
  /\ exit = NoExit
  /\ loadedSinceReset = [t \in Tables |-> 0]
  /\ discoveredSinceReset = [t \in Tables |-> FALSE]

SpecManifest == InitManifest /\ [][WriteManifest]_vars

\* masterCreateAndFeedMetaTable called on its own, on a store a load of table
\* t has filled and a qservMeta that is empty or holds LSST__<t> already
LoadedStores(t) ==
  {Put(Loader(Put(EmptyFn, TemplateName(t), <<>>), t,
              Partitioner(file, getDataConfig[t]),
              ChunkFiles(Partitioner(file, getDataConfig[t]))),
       ChunkTableName(t, PlaceholderChunkId), <<>>) : file \in InputFiles(t)}

StaleMetaRows == {<<>>, <<<<1, 1, 0>>>>, <<<<2, MaxCell, 0>>>>}

InitMeta ==
  /\ totalChunks \in ConfiguredDomains
  /\ table \in Tables
  /\ tables \in LoadedStores(table)
  /\ metaTables \in {EmptyFn} \cup {Put(EmptyFn, table, rows) : rows \in StaleMetaRows}
  /\ chunk_id_list \in {workerGetNonEmptyChunkIds(tables)}
       \cup {Ascending({FromDigits(n[2]) : n \in {m \in DOMAIN tables : m[2] # <<>>}})}
  /\ pc = "masterCreateAndFeedMetaTable"
  /\ steps = SubSeq(CallOrder, 1, 6)
  /\ runs = 1
  /\ freshStart = FALSE
  /\ dbExists = TRUE
  /\ metaDbExists = TRUE
  /\ xrdQueryDir = NoDir
  /\ xrdResultDir = NoDir
  /\ emptyChunksFile = NoFile
  /\ provisionedFor = "none"
  /\ partitionOut = NoPartition
  /\ error = NoError
  /\ exit = NoExit
  /\ loadedSinceReset = [t \in Tables |-> IF t = table THEN 1 ELSE 0]
  /\ discoveredSinceReset = [t \in Tables |-> t = table]

SpecMeta == InitMeta /\ [][masterCreateAndFeedMetaTable]_vars

\* ------------------------------------------------------------------- claims
StrictlyIncreasing(l) == \A i \in 1..(Len(l) - 1) : l[i] < l[i + 1]

Completed(call) == call \in Range(steps)

\* C1: for every configured domain size N and non-empty S within [0,N), the
\* manifest written is the ascending list of [0,N) minus S
C1_Claim ==
  LET S == Range(chunk_id_list)
      manifest == Lines(emptyChunksFile)
  IN (Completed("masterCreateEmptyChunksFile") /\ S # {}
        /\ S \subseteq 0..(totalChunks - 1))
     => /\ StrictlyIncreasing(manifest)
        /\ Range(manifest) = (0..(totalChunks - 1)) \ S

\* C2: a chunk id list holding an id >= totalChunks makes the manifest
\* builder fail: it never completes and writes a manifest for such a list
C2_Claim ==
  (\E i \in DOMAIN chunk_id_list : chunk_id_list[i] >= totalChunks)
  => ~Completed("masterCreateEmptyChunksFile")

\* the chunk ids of the relations <t>_<digits> of the store
ChunkIdsOf(t) ==
  {FromDigits(n[2]) : n \in {m \in DOMAIN tables : m[1] = t /\ m[2] # <<>>}}

C4_Claim ==
  Completed("workerGetNonEmptyChunkIds")
  => Range(chunk_id_list) = ChunkIdsOf(table)

\* C5: every discovered chunk id names a chunk table that holds at least one
\* row
C5_Claim ==
  \A i \in DOMAIN chunk_id_list :
    \E t \in Tables :
      /\ ChunkTableName(t, chunk_id_list[i]) \in DOMAIN tables
      /\ Len(tables[ChunkTableName(t, chunk_id_list[i])]) >= 1

\* the spec's name for the step a call of loadPartitionedTable carries out
SpecStep(call) ==
  CASE call = "getDataConfig" -> "resolve partition spec"
    [] call = "partitionData" -> "invoke partitioner"
    [] call = "loadPartitionedData" -> "load chunk tables"
    [] call = "workerGetNonEmptyChunkIds" -> "discover non-empty chunks"
    [] call = "masterCreateAndFeedMetaTable" -> "build meta table"
    [] call = "workerCreateXrootdExportDirs" -> "provision export directories"
    [] call = "masterCreateEmptyChunksFile" -> "build empty-chunk manifest"
    [] OTHER -> "none"

StepsTaken ==
  LET named(x) == x # "none"
  IN SelectSeq([i \in DOMAIN steps |-> SpecStep(steps[i])], named)

ClaimedOrder ==
  <<"resolve partition spec", "invoke partitioner", "load chunk tables",
    "discover non-empty chunks", "enforce co-partitioning", "build meta table",
    "provision export directories", "build empty-chunk manifest">>

C7_Theorem ==
  (exit.cmd = "partition.py" /\ exit.code # 0)
  => /\ pc = "failed"
     /\ error = [kind |-> "SubprocessFailure", code |-> exit.code,
                 step |-> "partitionData"]
     /\ ~Completed("loadPartitionedData")

\* the partitioner has exited with code 2
C7_Witness == exit = [cmd |-> "partition.py", code |-> 2] /\ pc = "failed"

KeptBy(f, g) == \A x \in DOMAIN f : x \in DOMAIN g /\ g[x] = f[x]

\* C8: the step that fails a run leaves every relation of the store as it
\* was (nothing is rolled back), and after it the run makes no further call:
\* only initDatabases or a new call of loadPartitionedTable follows
C8_Theorem ==
  [][/\ (pc # "failed" /\ pc' = "failed")
          => /\ KeptBy(tables, tables')
             /\ KeptBy(metaTables, metaTables')
             /\ dbExists' = dbExists
             /\ metaDbExists' = metaDbExists
     /\ pc = "failed" => (pc' = "idle" \/ runs' = runs + 1)]_vars

\* a run has failed while feeding the meta table, with chunk tables loaded
\* and part of the metadata written
C8_Witness ==
  /\ pc = "failed"
  /\ error.step = "masterCreateAndFeedMetaTable"
  /\ table \in DOMAIN metaTables
  /\ Len(metaTables[table]) >= 1
  /\ \E n \in DOMAIN tables : n[1] = table /\ Len(tables[n]) >= 1

\* the chunk tables the run's loader made from the partitioner's output
RunChunkTablesLoaded ==
  \A c \in DOMAIN partitionOut.chunks :
    /\ ChunkTableName(table, c) \in DOMAIN tables
    /\ tables[ChunkTableName(table, c)] = RowsById(partitionOut.chunks[c])

\* C9: a run ends "done" only with every call returned, the meta table fed
\* from every discovered chunk and the manifest written; a run that fails in
\* the meta-table or manifest step is failed, its chunk tables still loaded
C9_Theorem ==
  /\ pc = "done"
       => /\ steps = CallOrder
          /\ error = NoError
          /\ table \in DOMAIN metaTables
          /\ FeedMeta(tables, <<>>, table, chunk_id_list) =
               [ok |-> TRUE, rows |-> metaTables[table]]
          /\ emptyChunksFile =
               File(masterCreateEmptyChunksFile(totalChunks, chunk_id_list))
  /\ (error.step \in {"masterCreateAndFeedMetaTable", "masterCreateEmptyChunksFile"})
       => pc = "failed" /\ RunChunkTablesLoaded

\* writing the manifest has failed after a load of two chunks succeeded
C9_Witness ==
  /\ pc = "failed"
  /\ error.step = "masterCreateEmptyChunksFile"
  /\ Cardinality(DOMAIN partitionOut.chunks) = 2

NoDuplicateRows ==
  /\ \A n \in DOMAIN tables :
       \A i, j \in DOMAIN tables[n] : i # j => tables[n][i].id # tables[n][j].id
  /\ \A t \in DOMAIN metaTables :
       \A i, j \in DOMAIN metaTables[t] :
         i # j => metaTables[t][i][1] # metaTables[t][j][1]

IdsFromInput(t, out) ==
  IF t = "Object" THEN Ascending(DOMAIN out \cup {PlaceholderChunkId}) ELSE <<>>

\* the metadata rows of the chunks ids of partitioner output out, in order
RECURSIVE MetaFromInput(_, _)
MetaFromInput(out, ids) ==
  IF ids = <<>> THEN <<>>
  ELSE LET rows == IF Head(ids) \in DOMAIN out
                   THEN RowsById(out[Head(ids)]) ELSE <<>>
       IN [i \in DOMAIN rows |-> MetaRowOf(rows[i])]
          \o MetaFromInput(out, Tail(ids))

\* C11: a run made on a freshly reset store and completed has a chunk id
\* list, a metadata table and a manifest that are functions of the table and
\* of its input alone: whatever files and relations an earlier run left, a
\* second run on the same input after a reset yields the same three
C11_Theorem ==
  (pc = "done" /\ freshStart)
  => LET ids == IdsFromInput(table, partitionOut.chunks)
     IN /\ chunk_id_list = ids
        /\ metaTables = Put(EmptyFn, table, MetaFromInput(partitionOut.chunks, ids))
        /\ emptyChunksFile.exists
        /\ LET manifest == Lines(emptyChunksFile)
           IN /\ StrictlyIncreasing(manifest)
              /\ Range(manifest) = (0..(HardCodedDomain - 1)) \ Range(ids)

\* a second run, made after a reset on a store, export directory and manifest
\* the first run had written, has completed on an input of two chunks
C11_Witness ==
  /\ pc = "done"
  /\ freshStart
  /\ runs = 2
  /\ table = "Object"
  /\ Cardinality(DOMAIN partitionOut.chunks) = 2

\* the Object a Source row refers to (see InputFiles)
objectId(r) == r.id

\* the rows of the chunk tables of t, each with the chunk id in its table's name
StoredRows(t) ==
  UNION {{[row |-> tables[n][i], chunk |-> FromDigits(n[2])] : i \in DOMAIN tables[n]}
           : n \in {m \in DOMAIN tables : m[1] = t /\ m[2] # <<>>}}

\* C12: once a run of the dependent table Source has completed, every Source
\* row whose Object is in the store is in the chunk of that Object, by the
\* chunkId it carries and by the chunk table that holds it
C12_Claim ==
  (pc = "done" /\ table = "Source")
  => \A s \in StoredRows("Source") : \A o \in StoredRows("Object") :
       objectId(s.row) = o.row.id
       => s.row.chunkId = o.row.chunkId /\ s.chunk = o.chunk

\* C13: whenever the partitioner has assigned chunks to the rows of Source,
\* the table without a chunk column, a run of its parent Object has loaded
\* its chunk tables and discovered its chunk ids (since the last reset, which
\* drops them)
C13_Claim ==
  (table = "Source" /\ Completed("partitionData"))
  => loadedSinceReset["Object"] >= 1 /\ discoveredSinceReset["Object"]

\* C14: when workerCreateXrootdExportDirs returns in a run of table T, the
\* export directory of T holds exactly one marker per id of the list passed
\* in, and the markers another table's run had left are all still there
C14_Claim ==
  [][(pc = "workerCreateXrootdExportDirs" /\ pc' = After("workerCreateXrootdExportDirs"))
       => /\ ExportDirOf(table)' = Dir(ExportMarkers(chunk_id_list))
          /\ Cardinality(ExportDirOf(table)'.names) = Len(chunk_id_list)
          /\ (provisionedFor \in Tables \ {table})
               => xrdQueryDir.names \subseteq xrdQueryDir'.names]_vars

\* C15: when masterCreateAndFeedMetaTable is called while LSST__<table>
\* exists, the call returns, and the table then holds exactly one row per row
\* of the chunk tables of the list passed in, none of them a stale one
C15_Claim ==
  [][(pc = "masterCreateAndFeedMetaTable" /\ table \in DOMAIN metaTables)
       => /\ pc' = After("masterCreateAndFeedMetaTable")
          /\ LET current == {r \in StoredRows(table) : r.chunk \in Range(chunk_id_list)}
                 meta == metaTables'[table]
             IN /\ Range(meta) = {MetaRowOf(r.row) : r \in current}
                /\ Len(meta) = Cardinality(current)]_vars

\* C16: with every subprocess and store call returning, a run that has begun
\* reaches "done" or "failed" without an operator's confirmation
C16_Claim == (pc \notin Terminal) ~> (pc \in Terminal)

\* C17: a step of initDatabases, from whatever store, leaves both databases
\* existing and without any relation, so that discovery on the store returns
\* the empty list and no metadata table exists; the export directories and
\* the manifest file are as they were
C17_Theorem ==
  [][initDatabases
       => /\ dbExists' /\ metaDbExists'
          /\ DOMAIN tables' = {}
          /\ DOMAIN metaTables' = {}
          /\ workerGetNonEmptyChunkIds(tables') = <<>>
          /\ xrdQueryDir' = xrdQueryDir
          /\ xrdResultDir' = xrdResultDir
          /\ emptyChunksFile' = emptyChunksFile]_vars

\* the store has been reset after a run that filled it: the markers and the
\* manifest of that run are still on disk
C17_Witness ==
  /\ pc = "idle"
  /\ dbExists /\ metaDbExists
  /\ tables = EmptyFn /\ metaTables = EmptyFn
  /\ Cardinality(xrdQueryDir.names) >= 2
  /\ emptyChunksFile.exists

\* the chunk ids that have a marker file, and those the manifest lists
Marked == {FromDigits(n) : n \in xrdQueryDir.names}
Listed == UNION {(r[1])..(r[2]) : r \in Range(emptyChunksFile.runs)}

====
